---------------------------- MODULE Spec2Model ----------------------------
(***************************************************************************)
(* Model of rsky-pds/src/repo/mst/util.rs: the key validator, the hash     *)
(* fan-out rule and the canonical node encoder of the Merkle Search Tree.  *)
(*                                                                         *)
(* A Rust String is a sequence of one-character strings (all keys of the   *)
(* model are ASCII, so byte length and character count coincide); a        *)
(* Vec<u8> is a sequence of such characters too, with the token "0xFF"     *)
(* standing for a byte that is not valid UTF-8.  Option<T> is <<>> (None)  *)
(* or <<x>> (Some(x)).  A call ends in one of three ways: Ok(v), Err(..)   *)
(* (the anyhow error returned to the caller) or Panic(..) (the thread      *)
(* unwinds: an index out of bounds, an unwrap of None, an overflow).       *)
(***************************************************************************)
EXTENDS Integers, Sequences, FiniteSets, TLC

VARIABLES pc, key, entries, data, layer, overflow_checks, sha, ret, reads, loads

vars == <<pc, key, entries, data, layer, overflow_checks, sha, ret, reads, loads>>

-----------------------------------------------------------------------------
(* Option and Result *)

None == <<>>
Some(x) == <<x>>

Ok(v) == [tag |-> "Ok", val |-> v]
Err(m, k) == [tag |-> "Err", msg |-> m, key |-> k]
NoKey == <<>>
Panic(m) == [tag |-> "Panic", msg |-> m]

-----------------------------------------------------------------------------
(* Characters: the printable ASCII characters in code order, from 32; the   *)
(* token "0x60" stands for the grave accent.                               *)

Printable ==
  << " ", "!", "\"", "#", "$", "%", "&", "'", "(", ")", "*", "+", ",", "-",
     ".", "/", "0", "1", "2", "3", "4", "5", "6", "7", "8", "9", ":", ";",
     "<", "=", ">", "?", "@", "A", "B", "C", "D", "E", "F", "G", "H", "I",
     "J", "K", "L", "M", "N", "O", "P", "Q", "R", "S", "T", "U", "V", "W",
     "X", "Y", "Z", "[", "\\", "]", "^", "_", "0x60", "a", "b", "c", "d", "e",
     "f", "g", "h", "i", "j", "k", "l", "m", "n", "o", "p", "q", "r", "s",
     "t", "u", "v", "w", "x", "y", "z", "{", "|", "}", "~" >>

PrintableChars == {Printable[i] : i \in 1..Len(Printable)}

Code(c) ==
  IF c \in PrintableChars
    THEN 31 + (CHOOSE i \in 1..Len(Printable) : Printable[i] = c)
    ELSE 255

-----------------------------------------------------------------------------
(* Key validator *)

MaxKeyLen == 256

\* Regex ^[a-zA-Z0-9_\-:.]*$ : every character of the input is in the class.
InClass(c) ==
  \/ Code("a") <= Code(c) /\ Code(c) <= Code("z")
  \/ Code("A") <= Code(c) /\ Code(c) <= Code("Z")
  \/ Code("0") <= Code(c) /\ Code(c) <= Code("9")
  \/ c \in {"_", "-", ":", "."}

is_valid_chars(input) == \A i \in 1..Len(input) : InClass(input[i])

\* str::split("/"): the segments between the separators; n separators give
\* n + 1 segments, and the empty string gives one empty segment.
RECURSIVE Split(_)
Split(s) ==
  IF \A i \in 1..Len(s) : s[i] /= "/"
    THEN <<s>>
    ELSE LET j == CHOOSE i \in 1..Len(s) :
                    s[i] = "/" /\ \A h \in 1..(i - 1) : s[h] /= "/"
         IN  <<SubSeq(s, 1, j - 1)>> \o Split(SubSeq(s, j + 1, Len(s)))

is_valid_repo_mst_path_lt(k) ==
  LET split == Split(k)
  IN  /\ Len(k) < MaxKeyLen
      /\ Len(split) = 2
      /\ Len(split[1]) > 0
      /\ Len(split[2]) > 0
      /\ is_valid_chars(split[1])
      /\ is_valid_chars(split[2])

is_valid_repo_mst_path(k) ==
  LET split == Split(k)
  IN  /\ Len(k) <= MaxKeyLen
      /\ Len(split) = 2
      /\ Len(split[1]) > 0
      /\ Len(split[2]) > 0
      /\ is_valid_chars(split[1])
      /\ is_valid_chars(split[2])

ensure_valid_mst_key(k) ==
  IF is_valid_repo_mst_path(k) THEN Ok(<<>>) ELSE Err("Invalid MST Key", k)

-----------------------------------------------------------------------------
(* Hash fan-out rule *)

HashLen == 32

\* Sha256::digest is a function of the hashed bytes alone; sha is its graph
\* on the byte strings hashed in the behaviour.
Sha256_digest(k) == sha[k]

RECURSIVE leading_zeros_loop_nobreak(_, _, _)
leading_zeros_loop_nobreak(hash, i, leading_zeros) ==
  IF i > Len(hash) THEN leading_zeros
  ELSE LET byte == hash[i]
           lz == leading_zeros
                   + (IF byte < 64 THEN 1 ELSE 0)
                   + (IF byte < 16 THEN 1 ELSE 0)
                   + (IF byte < 4 THEN 1 ELSE 0)
                   + (IF byte = 0 THEN 1 ELSE 0)
       IN  leading_zeros_loop_nobreak(hash, i + 1, lz)

\* The for loop over the digest bytes, from byte i (1-based) with the
\* running count leading_zeros.
RECURSIVE leading_zeros_loop(_, _, _)
leading_zeros_loop(hash, i, leading_zeros) ==
  IF i > Len(hash) THEN leading_zeros
  ELSE LET byte == hash[i]
           lz == leading_zeros
                   + (IF byte < 64 THEN 1 ELSE 0)
                   + (IF byte < 16 THEN 1 ELSE 0)
                   + (IF byte < 4 THEN 1 ELSE 0)
       IN  IF byte = 0
             THEN leading_zeros_loop(hash, i + 1, lz + 1)
             ELSE lz

leading_zeros_on_hash(k) == Ok(leading_zeros_loop(Sha256_digest(k), 1, 0))

-----------------------------------------------------------------------------
(* Node entries *)

Leaf(k, v) == [type |-> "Leaf", key |-> k, value |-> v]

\* MST::load attaches to a subtree by content identifier without loading it.
MST_load(cid, ly) == [type |-> "MST", pointer |-> cid, layer |-> ly]

is_leaf(e) == e.type = "Leaf"

find_last_leaf(es) ==
  IF \E i \in 1..Len(es) : is_leaf(es[i])
    THEN Some(es[CHOOSE i \in 1..Len(es) :
                    is_leaf(es[i]) /\ \A j \in (i + 1)..Len(es) : ~is_leaf(es[j])])
    ELSE None

\* entries.into_iter().find(|entry| entry.is_leaf())
RECURSIVE find_leaf(_)
find_leaf(es) ==
  IF es = <<>> THEN None
  ELSE IF is_leaf(Head(es)) THEN Some(Head(es))
  ELSE find_leaf(Tail(es))

layer_for_entries(es) ==
  LET first_leaf == find_leaf(es)
  IN  IF first_leaf /= None
        THEN LET f == first_leaf[1]
             IN  IF f.type = "MST"
                   THEN Ok(None)
                   ELSE Ok(Some(leading_zeros_on_hash(f.key).val))
        ELSE Ok(None)

-----------------------------------------------------------------------------
(* Canonical encoder *)

U8Max == 255

\* The loop of count_prefix_len at index i (0-based); x equals i on entry.
\* b.chars().nth(i) is None once i reaches the length of b, and unwrap panics.
RECURSIVE count_prefix_loop(_, _, _)
count_prefix_loop(a, b, i) ==
  IF i >= Len(a) THEN Ok(i)
  ELSE IF i >= Len(b) THEN Panic("called Option::unwrap() on a None value")
  ELSE IF a[i + 1] /= b[i + 1] THEN Ok(i)
  ELSE count_prefix_loop(a, b, i + 1)

count_prefix_len(a, b) == count_prefix_loop(a, b, 0)

\* The bytes stored in TreeEntry.k for a leaf key and its prefix length.
stored_key_bytes(k, prefix_len) == SubSeq(k, 1, prefix_len)

\* The while loop of serialize_node_data at index i (0-based). d is the
\* NodeData built so far, rd the set of indices of entries read by indexing.
RECURSIVE serialize_loop(_, _, _, _, _)
serialize_loop(es, i, d, last_key, rd) ==
  IF ~(i < Len(es)) THEN [out |-> Ok(d), reads |-> rd]
  ELSE
    LET leaf == es[i + 1]
        rd1  == rd \cup {i, i + 1}
    IN
    IF i + 1 >= Len(es)
      THEN [out |-> Panic("index out of bounds"), reads |-> rd1]
    ELSE
      LET next == es[i + 2] IN
      IF ~is_leaf(leaf)
        THEN [out |-> Err("Not a valid node: two subtrees next to each other", NoKey),
              reads |-> rd1]
      ELSE
        LET subtree == IF next.type = "MST" THEN Some(next.pointer) ELSE None
            i2      == IF next.type = "MST" THEN i + 2 ELSE i + 1
            valid   == ensure_valid_mst_key(leaf.key)
        IN
        IF valid.tag /= "Ok" THEN [out |-> valid, reads |-> rd1]
        ELSE
          LET prefix_len == count_prefix_len(last_key, leaf.key) IN
          IF prefix_len.tag /= "Ok" THEN [out |-> prefix_len, reads |-> rd1]
          ELSE IF prefix_len.val > U8Max
            THEN [out |-> Err("out of range integral type conversion attempted", NoKey),
                  reads |-> rd1]
          ELSE
            LET te == [p |-> prefix_len.val,
                       k |-> stored_key_bytes(leaf.key, prefix_len.val),
                       v |-> leaf.value,
                       t |-> subtree]
            IN  serialize_loop(es, i2, [d EXCEPT !.e = Append(@, te)], leaf.key, rd1)

serialize_node_data(es) ==
  LET first_is_mst == Len(es) > 0 /\ es[1].type = "MST"
      i0 == IF first_is_mst THEN 1 ELSE 0
      l0 == IF first_is_mst THEN Some(es[1].pointer) ELSE None
      rd0 == IF Len(es) > 0 THEN {0} ELSE {}
  IN  serialize_loop(es, i0, [l |-> l0, e |-> <<>>], <<>>, rd0)

\* A u32 as its two 16-bit halves <<low, high>>.
U32(n) == <<n % 65536, n \div 65536>>

\* layer - 1 on a u32: with overflow checks (a debug build) 0 - 1 panics,
\* without them (a release build) it wraps to 2^32 - 1.
u32_sub_one(x, checks) ==
  IF x[1] > 0 THEN Ok(<<x[1] - 1, x[2]>>)
  ELSE IF x[2] > 0 THEN Ok(<<65535, x[2] - 1>>)
  ELSE IF checks THEN Panic("attempt to subtract with overflow")
  ELSE Ok(<<65535, 65535>>)

new_layer(ly, checks) ==
  IF ly /= None
    THEN LET r == u32_sub_one(ly[1], checks)
         IN  IF r.tag = "Ok" THEN Ok(Some(r.val)) ELSE r
    ELSE Ok(None)

\* str::from_utf8: the model's bytes are ASCII characters or the token 0xFF.
from_utf8(bytes) ==
  IF \A i \in 1..Len(bytes) : bytes[i] \in PrintableChars
    THEN Ok(bytes)
    ELSE Err("invalid utf-8 sequence", NoKey)

\* The for loop of deserialize_node_data from record n (1-based). acc is the
\* entry list built so far, lds the MST::load calls made so far.
RECURSIVE deserialize_loop(_, _, _, _, _, _, _)
deserialize_loop(e, n, acc, last_key, ly, checks, lds) ==
  IF n > Len(e) THEN [out |-> Ok(acc), loads |-> lds]
  ELSE
    LET entry   == e[n]
        key_str == from_utf8(entry.k)
    IN
    IF key_str.tag /= "Ok" THEN [out |-> key_str, loads |-> lds]
    ELSE IF entry.p > Len(last_key)
      THEN [out |-> Panic("byte index out of range"), loads |-> lds]
    ELSE
      LET k     == SubSeq(last_key, 1, entry.p) \o key_str.val
          valid == ensure_valid_mst_key(k)
      IN
      IF valid.tag /= "Ok" THEN [out |-> valid, loads |-> lds]
      ELSE
        LET acc1 == Append(acc, Leaf(k, entry.v)) IN
        IF entry.t /= None
          THEN LET nl == new_layer(ly, checks) IN
               IF nl.tag /= "Ok" THEN [out |-> nl, loads |-> lds]
               ELSE deserialize_loop(e, n + 1,
                      Append(acc1, MST_load(entry.t[1], nl.val)), k, ly, checks,
                      Append(lds, [pointer |-> entry.t[1], layer |-> nl.val]))
          ELSE deserialize_loop(e, n + 1, acc1, k, ly, checks, lds)

deserialize_node_data(d, ly, checks) ==
  IF d.l /= None
    THEN LET nl == new_layer(ly, checks) IN
         IF nl.tag /= "Ok" THEN [out |-> nl, loads |-> <<>>]
         ELSE deserialize_loop(d.e, 1, <<MST_load(d.l[1], nl.val)>>, <<>>, ly, checks,
                <<[pointer |-> d.l[1], layer |-> nl.val]>>)
    ELSE deserialize_loop(d.e, 1, <<>>, <<>>, ly, checks, <<>>)

-----------------------------------------------------------------------------
(* Inputs *)

MaxKeyGen == 3
MaxEntries == 3
MaxRecords == 2

SeqsUpTo(S, n) == UNION {[1..m -> S] : m \in 0..n}

\* Keys given to the validator: every string over a small alphabet, every
\* printable character as a one-character segment, and keys about MaxKeyLen.
KeyAlphabet == {"a", ".", "/", "@", " ", "~"}

Padded(head, c, n) == head \o [i \in 1..(n - Len(head)) |-> c]

LongKeys ==
  {Padded(head, "b", n) :
     head \in {<<"a", "/">>, <<>>, <<"a", "/", "@">>, <<"/">>},
     n \in (MaxKeyLen - 1)..(MaxKeyLen + 1)}

ValidatorKeys ==
  SeqsUpTo(KeyAlphabet, MaxKeyGen)
    \cup {<<"a", "/", c>> : c \in PrintableChars}
    \cup {<<c, "/", "a">> : c \in PrintableChars}
    \cup LongKeys

\* Keys of the entry lists, in ascending order, and one malformed key.
KeyAB  == <<"a", "/", "b">>
KeyABC == <<"a", "/", "b", "c">>
KeyAC  == <<"a", "/", "c">>
KeyBA  == <<"b", "/", "a">>
BadKey == <<"a">>

EntryKeys == {KeyAB, KeyABC, KeyAC, KeyBA, BadKey}

Cids == {"c1", "c2"}

EntryUniverse ==
  {Leaf(KeyAB, "v1"), Leaf(KeyAB, "v2"), Leaf(KeyABC, "v1"), Leaf(KeyAC, "v2"),
   Leaf(KeyBA, "v1"), Leaf(BadKey, "v1")}
    \cup {MST_load(c, None) : c \in Cids}

EntryLists == SeqsUpTo(EntryUniverse, MaxEntries)

\* Node data as read from the store, not necessarily produced by serialize.
UntrustedRecords ==
  [p : {0, 2, 4},
   k : {KeyAB, <<"c">>, <<"0xFF">>},
   v : {"v1"},
   t : {None, Some("c1")}]

UntrustedData ==
  [l : {None, Some("c2")}, e : SeqsUpTo(UntrustedRecords, MaxRecords)]

Layers == {None, Some(U32(0)), Some(U32(1)), Some(U32(65536))}

\* Digests: z zero bytes, then a non-zero byte b, then filler bytes f.
Digest(z, b, f) ==
  [i \in 1..HashLen |-> IF i <= z THEN 0 ELSE IF i = z + 1 THEN b ELSE f]

DigestSet == {Digest(z, b, f) : z \in 0..HashLen, b \in 1..255, f \in {0, 255}}

LayerDigests == {Digest(0, 64, 0), Digest(1, 3, 255)}

HashInputs == {KeyAB}

KeysIn(es) == {es[i].key : i \in {j \in 1..Len(es) : is_leaf(es[j])}}

-----------------------------------------------------------------------------
(* State machine: one call of one function of util.rs per step. *)

Init ==
  /\ pc = "idle"
  /\ key = <<>>
  /\ entries = <<>>
  /\ data = [l |-> None, e |-> <<>>]
  /\ layer = None
  /\ overflow_checks = FALSE
  /\ sha = <<>>
  /\ ret = [tag |-> "None"]
  /\ reads = {}
  /\ loads = <<>>

IsValidRepoMstPath ==
  /\ pc = "idle"
  /\ \E k \in ValidatorKeys :
       /\ key' = k
       /\ ret' = Ok(is_valid_repo_mst_path(k))
  /\ pc' = "is_valid_repo_mst_path"
  /\ UNCHANGED <<entries, data, layer, overflow_checks, sha, reads, loads>>

EnsureValidMstKey ==
  /\ pc = "idle"
  /\ \E k \in ValidatorKeys :
       /\ key' = k
       /\ ret' = ensure_valid_mst_key(k)
  /\ pc' = "ensure_valid_mst_key"
  /\ UNCHANGED <<entries, data, layer, overflow_checks, sha, reads, loads>>

LeadingZerosOnHash ==
  /\ pc = "idle"
  /\ \E k \in HashInputs, d \in DigestSet :
       /\ key' = k
       /\ sha' = (k :> d)
       /\ ret' = leading_zeros_on_hash(k)'
  /\ pc' = "leading_zeros_on_hash"
  /\ UNCHANGED <<entries, data, layer, overflow_checks, reads, loads>>

LayerForEntries ==
  /\ pc = "idle"
  /\ \E es \in EntryLists :
       /\ entries' = es
       /\ \E h \in [KeysIn(es) -> LayerDigests] : sha' = h
       /\ ret' = layer_for_entries(es)'
  /\ pc' = "layer_for_entries"
  /\ UNCHANGED <<key, data, layer, overflow_checks, reads, loads>>

SerializeNodeData ==
  /\ pc = "idle"
  /\ \E es \in EntryLists :
       LET r == serialize_node_data(es)
       IN  /\ entries' = es
           /\ ret' = r.out
           /\ reads' = r.reads
           /\ data' = IF r.out.tag = "Ok" THEN r.out.val ELSE data
  /\ pc' = "serialize_node_data"
  /\ UNCHANGED <<key, layer, overflow_checks, sha, loads>>

\* deserialize_node_data on the node data serialize_node_data produced.
DeserializeStored ==
  /\ pc = "serialize_node_data"
  /\ ret.tag = "Ok"
  /\ \E ly \in Layers, checks \in BOOLEAN :
       LET r == deserialize_node_data(data, ly, checks)
       IN  /\ layer' = ly
           /\ overflow_checks' = checks
           /\ ret' = r.out
           /\ loads' = r.loads
  /\ pc' = "round_trip"
  /\ UNCHANGED <<key, entries, data, sha, reads>>

\* deserialize_node_data on node data loaded from the store.
DeserializeUntrusted ==
  /\ pc = "idle"
  /\ \E d \in UntrustedData, ly \in Layers, checks \in BOOLEAN :
       LET r == deserialize_node_data(d, ly, checks)
       IN  /\ data' = d
           /\ layer' = ly
           /\ overflow_checks' = checks
           /\ ret' = r.out
           /\ loads' = r.loads
  /\ pc' = "deserialize_node_data"
  /\ UNCHANGED <<key, entries, sha, reads>>

Next ==
  \/ IsValidRepoMstPath
  \/ EnsureValidMstKey
  \/ LeadingZerosOnHash
  \/ LayerForEntries
  \/ SerializeNodeData
  \/ DeserializeStored
  \/ DeserializeUntrusted

Spec == Init /\ [][Next]_vars

-----------------------------------------------------------------------------
(* Vocabulary of the properties *)

Min(S) == CHOOSE x \in S : \A y \in S : x <= y

\* Byte-wise order of keys.
KeyLess(a, b) ==
  \E i \in 1..(Len(a) + 1) :
    /\ \A h \in 1..(i - 1) : h <= Len(b) /\ a[h] = b[h]
    /\ \/ i = Len(a) + 1 /\ Len(b) > Len(a)
       \/ i <= Len(a) /\ i <= Len(b) /\ Code(a[i]) < Code(b[i])

LeafPositions(es) ==
  SelectSeq([i \in 1..Len(es) |-> i], LAMBDA i : es[i].type = "Leaf")

HasAdjacentSubtrees(es) ==
  \E i \in 1..(Len(es) - 1) : es[i].type = "MST" /\ es[i + 1].type = "MST"

\* Keys valid and strictly ascending, no two subtree pointers adjacent.
WellFormed(es) ==
  LET lp == LeafPositions(es)
  IN  /\ \A n \in 1..Len(lp) : is_valid_repo_mst_path(es[lp[n]].key)
      /\ \A n \in 1..(Len(lp) - 1) : KeyLess(es[lp[n]].key, es[lp[n + 1]].key)
      /\ ~HasAdjacentSubtrees(es)

\* Leaves with key and value, subtree pointers with their identifier.
Shape(es) ==
  [i \in 1..Len(es) |->
     IF es[i].type = "Leaf"
       THEN <<"Leaf", es[i].key, es[i].value>>
       ELSE <<"MST", es[i].pointer>>]

CommonPrefixLen(a, b) ==
  Min({n \in 0..Len(a) : n = Len(a) \/ n >= Len(b) \/ a[n + 1] /= b[n + 1]})

\* The canonical node data of an entry list, as the wire format defines it.
CanonicalForm(es) ==
  LET lp == LeafPositions(es)
      rec(n) ==
        LET k    == es[lp[n]].key
            prev == IF n = 1 THEN <<>> ELSE es[lp[n - 1]].key
            p    == CommonPrefixLen(prev, k)
        IN  [p |-> p,
             k |-> SubSeq(k, p + 1, Len(k)),
             v |-> es[lp[n]].value,
             t |-> IF lp[n] < Len(es) /\ es[lp[n] + 1].type = "MST"
                     THEN Some(es[lp[n] + 1].pointer)
                     ELSE None]
  IN  [l |-> IF Len(es) > 0 /\ es[1].type = "MST" THEN Some(es[1].pointer) ELSE None,
       e |-> [n \in 1..Len(lp) |-> rec(n)]]

AllowedChars ==
  {"a", "b", "c", "d", "e", "f", "g", "h", "i", "j", "k", "l", "m", "n", "o",
   "p", "q", "r", "s", "t", "u", "v", "w", "x", "y", "z",
   "A", "B", "C", "D", "E", "F", "G", "H", "I", "J", "K", "L", "M", "N", "O",
   "P", "Q", "R", "S", "T", "U", "V", "W", "X", "Y", "Z",
   "0", "1", "2", "3", "4", "5", "6", "7", "8", "9", "_", "-", ":", "."}

Slashes(k) == Cardinality({i \in 1..Len(k) : k[i] = "/"})

\* Exactly two non-empty segments, at most 256 characters, all in the class.
Accepted(k) ==
  /\ Slashes(k) = 1
  /\ k[1] /= "/"
  /\ k[Len(k)] /= "/"
  /\ Len(k) <= 256
  /\ \A i \in 1..Len(k) : k[i] = "/" \/ k[i] \in AllowedChars

HasDotSegment(k) ==
  LET split == Split(k)
  IN  \E n \in 1..Len(split) : split[n] \in {<<".">>, <<".", ".">>}

\* Number of leading zero bits of a digest, most significant bit first.
LeadingZeroBits(d) ==
  LET Bit(j) == (d[(j \div 8) + 1] \div (2 ^ (7 - (j % 8)))) % 2
      ones   == {j \in 0..(8 * Len(d) - 1) : Bit(j) = 1}
  IN  IF ones = {} THEN 8 * Len(d) ELSE Min(ones)

ZeroBytes(d) ==
  Min({z \in 0..Len(d) : z = Len(d) \/ d[z + 1] /= 0})

U32Value(x) == x[2] * 65536 + x[1]

-----------------------------------------------------------------------------
(* Properties *)

\* C1: round trip. For a well-formed entry list (keys valid and strictly
\* ascending, no two subtree pointers adjacent), deserialize_node_data of
\* the serialized node data, read with an unknown expected layer, returns
\* the same leaves (keys and values) and subtree pointers in the same
\* positions.
C1_RoundTrip ==
  (pc = "round_trip" /\ layer = None /\ WellFormed(entries))
    => (ret.tag = "Ok" /\ Shape(ret.val) = Shape(entries))

\* C2: the node data serialize_node_data returns is the canonical form: the
\* leading subtree pointer as l, and per leaf one record with p the length
\* of the longest common prefix with the previous leaf's full key, k the key
\* without its first p bytes, v the value and t the subtree pointer that
\* follows the leaf, if any.
C2_CanonicalForm ==
  (pc = "serialize_node_data" /\ ret.tag = "Ok")
    => ret.val = CanonicalForm(entries)

\* C3: leading_zeros_on_hash returns the number of leading zero 2-bit groups
\* of the digest: half the number of leading zero bits, rounded down; 4 per
\* leading zero byte plus 3, 2, 1 or 0 for the first non-zero byte (below 4,
\* below 16, below 64, otherwise), nothing for later bytes; at most 4 * 32.
C3_LeadingZeros ==
  pc = "leading_zeros_on_hash" =>
    LET d == sha[key]
        z == ZeroBytes(d)
    IN  /\ ret.tag = "Ok"
        /\ ret.val = LeadingZeroBits(d) \div 2
        /\ ret.val \in 0..(4 * HashLen)
        /\ ret.val = 4 * z
                      + (IF z = Len(d) THEN 0
                         ELSE IF d[z + 1] < 4 THEN 3
                         ELSE IF d[z + 1] < 16 THEN 2
                         ELSE IF d[z + 1] < 64 THEN 1
                         ELSE 0)

\* C3 witness: a zero byte, then a byte below 4, then zero bytes that add
\* nothing: layer 7.
C3_Witness ==
  /\ pc = "leading_zeros_on_hash"
  /\ sha[key][1] = 0
  /\ sha[key][2] \in 1..3
  /\ sha[key][3] = 0
  /\ ret = Ok(7)

C5_DotSegments ==
  /\ (pc = "is_valid_repo_mst_path" /\ HasDotSegment(key)) => ret = Ok(FALSE)
  /\ (pc = "ensure_valid_mst_key" /\ HasDotSegment(key)) => ret.tag = "Err"

\* C6: for an entry list with two consecutive subtree pointers anywhere,
\* serialize_node_data returns the error "two subtrees next to each other".
C6_NoAdjacentSubtrees ==
  (pc = "serialize_node_data" /\ HasAdjacentSubtrees(entries))
    => ret = Err("Not a valid node: two subtrees next to each other", NoKey)

\* C7: deserialize_node_data of any node data, read with an unknown expected
\* layer, returns an error or an entry list whose leaf keys all pass the key
\* validator; it ends in no other way.
C7_CorruptionSurfaced ==
  (pc = "deserialize_node_data" /\ layer = None) =>
    /\ ret.tag \in {"Ok", "Err"}
    /\ ret.tag = "Ok" =>
         \A i \in 1..Len(ret.val) :
           ret.val[i].type = "Leaf" => is_valid_repo_mst_path(ret.val[i].key)

\* C8: with a known expected layer L, deserialize_node_data loads every
\* subtree pointer with layer L - 1, a non-negative layer, and the decrement
\* never ends the call; with an unknown layer every subtree pointer is loaded
\* with an unknown layer.
C8_LayerPropagation ==
  pc \in {"deserialize_node_data", "round_trip"} =>
    /\ ret /= Panic("attempt to subtract with overflow")
    /\ \A i \in 1..Len(loads) :
         IF layer = None
           THEN loads[i].layer = None
           ELSE /\ U32Value(layer[1]) - 1 >= 0
                /\ loads[i].layer = Some(U32(U32Value(layer[1]) - 1))

\* C9: layer_for_entries returns the layer of the key of the first leaf in
\* list order, however many subtree pointers precede it, and None for a list
\* without leaves.
C9_LayerForEntries ==
  pc = "layer_for_entries" =>
    LET lp == LeafPositions(entries)
    IN  IF lp = <<>>
          THEN ret = Ok(None)
          ELSE ret = Ok(Some(leading_zeros_on_hash(entries[lp[1]].key).val))

\* C9 witness: a subtree pointer, then two leaves whose keys have different
\* layers; the result is the layer of the first.
C9_Witness ==
  /\ pc = "layer_for_entries"
  /\ Len(entries) = 3
  /\ entries[1].type = "MST"
  /\ entries[2].type = "Leaf"
  /\ entries[3].type = "Leaf"
  /\ entries[2].key /= entries[3].key
  /\ ret = Ok(Some(7))
  /\ leading_zeros_on_hash(entries[3].key).val = 0

\* C10: serialize_node_data reads entries only at indices below the list
\* length, and returns node data for every well-formed list.
C10_ReadsInBounds ==
  pc = "serialize_node_data" =>
    /\ \A i \in reads : i < Len(entries)
    /\ WellFormed(entries) => ret.tag = "Ok"

=============================================================================
